---- MODULE Spec2Model ----
(***************************************************************************)
(* Model of resnet-posture/train.py: the training driver (main, train,     *)
(* batch_status, validate, predict_test).                                  *)
(*                                                                         *)
(* Losses are integers (hundredths: 50 stands for 0.50).  The helpers of   *)
(* utils.py (restore_checkpoint, process_checkpoint) are not part of the   *)
(* sources at hand and are modelled from their documented contract.        *)
(***************************************************************************)
EXTENDS Integers, Sequences, FiniteSets

VARIABLES
    entry,            \* how the code was entered: "main", "train", "validate"
    pc,               \* position in the driver
    cfg,              \* parsed options and partition sizes (args.*)
    checkpoint,       \* the checkpoint file found at startup
    writer,           \* TRUE iff the attribute args.writer exists
    writerFault,      \* TRUE iff args.writer was used while it did not exist
    writerClosed,     \* TRUE iff args.writer.close() ran
    restored,         \* TRUE iff restore_checkpoint loaded a checkpoint
    best,             \* args.best
    running_loss,     \* args.running_loss
    train_loss,       \* args.train_loss
    dataloader_size,  \* args.dataloader_size = len(train_loader)
    epoch,            \* loop variable of "for epoch in range(args.epochs)"
    pos,              \* number of batches the current loader iterator has yielded
    global_step,      \* global_step of the last batch_status call
    prev_global_step, \* global_step of the batch_status call before that
    optSteps,         \* number of optimizer.step() calls
    backwards,        \* number of loss.backward() calls
    forwards,         \* number of forward passes made by predict_test
    lastLoss,         \* loss.item() of the last training step
    bestBefore,       \* args.best when the last batch_status call began
    fired,            \* TRUE iff the last batch_status call took the interval branch
    wrote,            \* TRUE iff the last batch_status call wrote a checkpoint
    printed,          \* numerator of the last printed Run_Loss (denominator log_interval)
    losses,           \* loss.item() of every training step so far
    stepLog,          \* global_step of every batch_status call so far
    firedAt,          \* global_step of every interval branch taken so far
    evals,            \* training loss of every step that took the interval branch
    store,            \* every checkpoint written so far
    validset,         \* per-item squared error of the validation partition
    vorder,           \* item order drawn by the shuffling validation loader
    run_loss,         \* run_loss of validate (scaled, see BatchLoss)
    vresults,         \* value returned by every finished validate call
    vorders           \* item order of every finished validate call

vars == << entry, pc, cfg, checkpoint, writer, writerFault, writerClosed,
           restored, best, running_loss, train_loss, dataloader_size, epoch,
           pos, global_step, prev_global_step, optSteps, backwards, forwards,
           lastLoss, bestBefore, fired, wrote, printed, losses, stepLog,
           firedAt, evals, store, validset, vorder, run_loss, vresults,
           vorders >>

trainVars == << best, running_loss, train_loss, dataloader_size, epoch,
                global_step, prev_global_step, optSteps, backwards,
                lastLoss, bestBefore, fired, wrote, printed, losses, stepLog,
                firedAt, evals, store, restored >>

validVars == << validset, vorder, run_loss, vresults, vorders >>

-----------------------------------------------------------------------------
(* Bounds of the model *)

MaxN == 4          \* largest train / test partition of the small runs
MaxB == 2          \* largest batch size of the small runs
MaxE == 2          \* largest epoch count of the small runs
MaxLI == 3         \* largest log interval of the small runs
MaxSteps == 5      \* longest small run, in training steps
MaxTest == 12      \* largest test partition
MaxV == 3          \* largest validation partition

(* Program constants *)

Inf == 1000000             \* float('inf'): above every loss of the model
batch_size_default == 16
log_interval_default == 50
epochs_default == 2

Losses == {30, 40, 45, 50}
VLosses == {35, 55}
ItemErrors == {0, 3}
ScenarioSizes == {100, 1280}

-----------------------------------------------------------------------------
(* Pure helpers *)

\* len(DataLoader(dataset of n items, batch_size=b, drop_last=False))
LoaderLen(n, b) == (n + b - 1) \div b

\* enumerate(loader, 1): the index given to the batch at 0-based position p
Enumerate(p) == p + 1

\* global_step = batch_idx + len(train_loader) * epoch
GlobalStepM(batch_idx, len, ep) == batch_idx + len * (ep + 1)
GlobalStep(batch_idx, len, ep) == batch_idx + len * ep

\* if global_step % args.log_interval == 0
IsLogStepM(gs, li) == gs % li = 1 % li
IsLogStepEarly(gs, li) == (gs + 1) % li = 0
IsLogStep(gs, li) == gs % li = 0

\* the loss batch_status hands to process_checkpoint
CheckpointArgM(loss, vloss) == vloss
CheckpointArg(loss, vloss) == loss

\* process_checkpoint: a checkpoint is written iff the loss improves on best
Improves(loss, b) == loss < b
SavedCheckpoint(loss, gs) == [best |-> loss, step |-> gs]

\* restore_checkpoint: progress read back from the checkpoint file
RestoredBest(ck, b) == IF ck.present THEN ck.best ELSE b

\* args.best = float('inf'), assigned after restore_checkpoint
BestAtLoopStart(b) == Inf

\* "args.predict is None": --predict is a store_true flag, True or False
PredictIsNone(p) == FALSE

\* predict_test: "if batch_idx < 10: pass / else: break"
ContinuePredictM(batch_idx) == batch_idx < 11
ContinuePredict(batch_idx) == batch_idx < 10

RECURSIVE SumSeq(_)
SumSeq(s) == IF s = << >> THEN 0 ELSE Head(s) + SumSeq(Tail(s))

\* the last n elements of s (all of s when it is shorter)
LastN(s, n) == IF Len(s) <= n THEN s ELSE SubSeq(s, Len(s) - n + 1, Len(s))

Min(a, b) == IF a < b THEN a ELSE b

-----------------------------------------------------------------------------
(* Inputs *)

NoCheckpoint == [present |-> FALSE, best |-> Inf, step |-> 0]

Checkpoints == {NoCheckpoint, [present |-> TRUE, best |-> 30, step |-> 5]}

Config(n, t, b, e, li, pr, pl, sm) ==
    [trainN |-> n, testN |-> t, batch_size |-> b, epochs |-> e,
     log_interval |-> li, predict |-> pr, plot |-> pl, summary |-> sm]

\* short runs, every loss of Losses possible at every step
SmallConfigs ==
    { Config(n, 0, b, e, li, FALSE, pl, FALSE) :
        n \in 0..MaxN, b \in 1..MaxB, e \in 0..MaxE, li \in 1..MaxLI,
        pl \in BOOLEAN }

\* the default options (batch size 16, 2 epochs, log interval 50)
ScenarioConfigs ==
    { Config(n, 0, batch_size_default, epochs_default, log_interval_default,
             FALSE, FALSE, FALSE) : n \in ScenarioSizes }

TrainConfigs ==
    { c \in SmallConfigs :
        LoaderLen(c.trainN, c.batch_size) * c.epochs <= MaxSteps }
    \cup ScenarioConfigs

MainConfigs ==
    { Config(MaxN, t, b, MaxE, 1, pr, pl, sm) :
        t \in 0..MaxTest, b \in 1..MaxB,
        pr \in BOOLEAN, pl \in BOOLEAN, sm \in BOOLEAN }

ValidConfigs ==
    { Config(0, 0, b, 0, 1, FALSE, FALSE, FALSE) : b \in 1..MaxB }

ValidSets ==
    UNION { [1..n -> ItemErrors] : n \in 1..MaxV }

\* the losses a training step of configuration c may observe
LossesOf(c) ==
    IF LoaderLen(c.trainN, c.batch_size) * c.epochs <= MaxSteps
    THEN Losses ELSE {40}

\* the orders in which a shuffling loader may yield n items
Orders(n) ==
    { f \in [1..n -> 1..n] : \A i, j \in 1..n : f[i] = f[j] => i = j }

-----------------------------------------------------------------------------
(* Initial states *)

InitCommon ==
    /\ writerFault = FALSE
    /\ writerClosed = FALSE
    /\ restored = FALSE
    /\ best = Inf
    /\ running_loss = 0
    /\ train_loss = 0
    /\ dataloader_size = 0
    /\ epoch = 0
    /\ pos = 0
    /\ global_step = 0
    /\ prev_global_step = 0
    /\ optSteps = 0
    /\ backwards = 0
    /\ forwards = 0
    /\ lastLoss = 0
    /\ bestBefore = Inf
    /\ fired = FALSE
    /\ wrote = FALSE
    /\ printed = 0
    /\ losses = << >>
    /\ stepLog = << >>
    /\ firedAt = << >>
    /\ evals = << >>
    /\ store = << >>
    /\ vorder = << >>
    /\ run_loss = 0
    /\ vresults = << >>
    /\ vorders = << >>

\* the script is run: main() starts, args holds the parsed options only
InitMain ==
    /\ entry = "main"
    /\ pc = "main"
    /\ cfg \in MainConfigs
    /\ checkpoint \in Checkpoints
    /\ writer = FALSE
    /\ validset = << >>
    /\ InitCommon

\* train() is entered with the network and the summary writer in place
InitTrain ==
    /\ entry = "train"
    /\ pc = "train"
    /\ cfg \in TrainConfigs
    /\ checkpoint \in Checkpoints
    /\ writer = TRUE
    /\ validset = << >>
    /\ InitCommon

\* validate() is called on a network and a validation partition
InitValidate ==
    /\ entry = "validate"
    /\ pc = "validate"
    /\ cfg \in ValidConfigs
    /\ checkpoint = NoCheckpoint
    /\ writer = TRUE
    /\ validset \in ValidSets
    /\ InitCommon

Init == InitMain \/ InitTrain \/ InitValidate

-----------------------------------------------------------------------------
(* main *)

\* main, up to the creation of the summary writer
MainSetup ==
    /\ pc = "main"
    /\ writer' = PredictIsNone(cfg.predict)
    /\ pc' = "dispatch"
    /\ UNCHANGED << entry, cfg, checkpoint, writerFault, writerClosed, pos,
                    forwards >>
    /\ UNCHANGED trainVars
    /\ UNCHANGED validVars

\* main, from the dataset load to the call of predict_test or train
MainDispatch ==
    /\ pc = "dispatch"
    /\ pc' = IF cfg.summary THEN "exit"
             ELSE IF cfg.predict THEN "predict" ELSE "train"
    /\ UNCHANGED << entry, cfg, checkpoint, writer, writerFault, writerClosed,
                    pos, forwards >>
    /\ UNCHANGED trainVars
    /\ UNCHANGED validVars

\* main, after predict_test or train returned
MainClose ==
    /\ entry = "main"
    /\ pc \in {"finished", "predicted"}
    /\ IF PredictIsNone(cfg.predict)
       THEN /\ writerClosed' = writer
            /\ writerFault' = (writerFault \/ ~writer)
            /\ pc' = IF writer THEN "exit" ELSE "crashed"
       ELSE /\ pc' = "exit"
            /\ UNCHANGED << writerClosed, writerFault >>
    /\ UNCHANGED << entry, cfg, checkpoint, writer, pos, forwards >>
    /\ UNCHANGED trainVars
    /\ UNCHANGED validVars

-----------------------------------------------------------------------------
(* train *)

\* train, from the creation of the loader to "Started Training"
TrainSetup ==
    /\ pc = "train"
    /\ LET len == LoaderLen(cfg.trainN, cfg.batch_size)
       IN /\ dataloader_size' = len
          /\ IF len < 2
             THEN \* the second dataiter.next() raises StopIteration
                  /\ pc' = "crashed"
                  /\ UNCHANGED << writerFault, best, restored >>
             ELSE IF cfg.plot /\ ~writer
             THEN \* args.writer.add_image('Sample', grid)
                  /\ pc' = "crashed"
                  /\ writerFault' = TRUE
                  /\ UNCHANGED << best, restored >>
             ELSE /\ restored' = checkpoint.present
                  /\ best' = BestAtLoopStart(RestoredBest(checkpoint, best))
                  /\ pc' = "epoch"
                  /\ UNCHANGED writerFault
    /\ epoch' = 0
    /\ UNCHANGED << entry, cfg, checkpoint, writer, writerClosed, pos,
                    forwards, running_loss, train_loss, global_step,
                    prev_global_step, optSteps, backwards, lastLoss,
                    bestBefore, fired, wrote, printed, losses, stepLog,
                    firedAt, evals, store >>
    /\ UNCHANGED validVars

\* the head of an epoch: reset of the loss statistics, a fresh loader iterator
EpochStart ==
    /\ pc = "epoch"
    /\ epoch < cfg.epochs
    /\ train_loss' = 0
    /\ running_loss' = 0
    /\ pos' = 0
    /\ pc' = "batch"
    /\ UNCHANGED << entry, cfg, checkpoint, writer, writerFault, writerClosed,
                    forwards, best, dataloader_size, epoch, global_step,
                    prev_global_step, optSteps, backwards, lastLoss,
                    bestBefore, fired, wrote, printed, losses, stepLog,
                    firedAt, evals, store, restored >>
    /\ UNCHANGED validVars

\* one iteration of the batch loop: the training step, then batch_status
TrainBatch ==
    /\ pc = "batch"
    /\ pos < dataloader_size
    /\ \E loss \in LossesOf(cfg), vloss \in VLosses :
        LET batch_idx == Enumerate(pos)
            gs == GlobalStep(batch_idx, dataloader_size, epoch)
            run == running_loss + loss
            log == writer /\ IsLogStep(gs, cfg.log_interval)
            arg == CheckpointArg(loss, vloss)
            save == log /\ Improves(arg, best)
        IN /\ backwards' = backwards + 1
           /\ optSteps' = optSteps + 1
           /\ pos' = pos + 1
           /\ lastLoss' = loss
           /\ losses' = Append(losses, loss)
           /\ bestBefore' = best
           /\ prev_global_step' = global_step
           /\ global_step' = gs
           /\ stepLog' = Append(stepLog, gs)
           /\ train_loss' = train_loss + loss
           /\ writerFault' = (writerFault \/ ~writer)
           /\ pc' = IF writer THEN "batch" ELSE "crashed"
           /\ fired' = log
           /\ firedAt' = IF log THEN Append(firedAt, gs) ELSE firedAt
           /\ evals' = IF log THEN Append(evals, loss) ELSE evals
           /\ wrote' = save
           /\ best' = IF save THEN arg ELSE best
           /\ store' = IF save THEN Append(store, SavedCheckpoint(arg, gs))
                       ELSE store
           /\ printed' = IF log THEN run ELSE printed
           /\ running_loss' = IF log THEN 0 ELSE run
    /\ UNCHANGED << entry, cfg, checkpoint, writer, writerClosed, forwards,
                    dataloader_size, epoch, restored >>
    /\ UNCHANGED validVars

\* the loader is exhausted: the epoch's average is printed
EpochEnd ==
    /\ pc = "batch"
    /\ pos = dataloader_size
    /\ epoch' = epoch + 1
    /\ pc' = "epoch"
    /\ UNCHANGED << entry, cfg, checkpoint, writer, writerFault, writerClosed,
                    pos, forwards, best, running_loss, train_loss,
                    dataloader_size, global_step, prev_global_step, optSteps,
                    backwards, lastLoss, bestBefore, fired, wrote, printed,
                    losses, stepLog, firedAt, evals, store, restored >>
    /\ UNCHANGED validVars

\* range(args.epochs) is exhausted: "Finished Training"
TrainFinish ==
    /\ pc = "epoch"
    /\ epoch >= cfg.epochs
    /\ pc' = "finished"
    /\ UNCHANGED << entry, cfg, checkpoint, writer, writerFault, writerClosed,
                    pos, forwards >>
    /\ UNCHANGED trainVars
    /\ UNCHANGED validVars

-----------------------------------------------------------------------------
(* predict_test *)

\* predict_test, up to the batch loop
PredictSetup ==
    /\ pc = "predict"
    /\ restored' = checkpoint.present
    /\ best' = RestoredBest(checkpoint, best)
    /\ pos' = 0
    /\ pc' = "predict_loop"
    /\ UNCHANGED << entry, cfg, checkpoint, writer, writerFault, writerClosed,
                    forwards, running_loss, train_loss, dataloader_size,
                    epoch, global_step, prev_global_step, optSteps, backwards,
                    lastLoss, bestBefore, fired, wrote, printed, losses,
                    stepLog, firedAt, evals, store >>
    /\ UNCHANGED validVars

\* one iteration of the batch loop: forward pass, arg-max, then the break test
PredictBatch ==
    /\ pc = "predict_loop"
    /\ pos < LoaderLen(cfg.testN, cfg.batch_size)
    /\ forwards' = forwards + 1
    /\ pos' = pos + 1
    /\ pc' = IF ContinuePredict(Enumerate(pos)) THEN "predict_loop"
             ELSE "predicted"
    /\ UNCHANGED << entry, cfg, checkpoint, writer, writerFault, writerClosed >>
    /\ UNCHANGED trainVars
    /\ UNCHANGED validVars

\* the test loader is exhausted
PredictExhaust ==
    /\ pc = "predict_loop"
    /\ pos = LoaderLen(cfg.testN, cfg.batch_size)
    /\ pc' = "predicted"
    /\ UNCHANGED << entry, cfg, checkpoint, writer, writerFault, writerClosed,
                    pos, forwards >>
    /\ UNCHANGED trainVars
    /\ UNCHANGED validVars

-----------------------------------------------------------------------------
(* validate *)

\* run_loss = 0
InitialRunLossM(previous) == previous
InitialRunLoss(previous) == 0

\* the positions of `order` that make up batch number b (0-based)
BatchSlots(n, bsize, b) == (b * bsize + 1) .. Min((b + 1) * bsize, n)

\* size of the last, possibly partial, batch of n items
LastBatchSize(n, bsize) == n - (LoaderLen(n, bsize) - 1) * bsize

\* criterion(outputs, targets).item() of batch b: the mean of its items'
\* squared errors, scaled by bsize * LastBatchSize so that it stays an integer
BatchLoss(items, order, bsize, b) ==
    LET n == Len(items)
        slots == BatchSlots(n, bsize, b)
        k == Cardinality(slots)
        scale == bsize * LastBatchSize(n, bsize)
    IN SumSeq([i \in 1..k |-> items[order[b * bsize + i]]]) * (scale \div k)

\* validate, up to the batch loop: the loader draws a fresh shuffle
ValidateStart ==
    /\ pc = "validate"
    /\ Len(vresults) < 2
    /\ \E o \in Orders(Len(validset)) : vorder' = o
    /\ run_loss' = InitialRunLoss(run_loss)
    /\ pos' = 0
    /\ pc' = "validate_loop"
    /\ UNCHANGED << entry, cfg, checkpoint, writer, writerFault, writerClosed,
                    forwards, validset, vresults, vorders >>
    /\ UNCHANGED trainVars

\* one iteration of the batch loop: forward pass and loss, no optimizer step
ValidateBatch ==
    /\ pc = "validate_loop"
    /\ pos < LoaderLen(Len(validset), cfg.batch_size)
    /\ run_loss' = run_loss + BatchLoss(validset, vorder, cfg.batch_size, pos)
    /\ pos' = pos + 1
    /\ UNCHANGED << entry, pc, cfg, checkpoint, writer, writerFault,
                    writerClosed, forwards, validset, vorder, vresults,
                    vorders >>
    /\ UNCHANGED trainVars

\* return run_loss / len(valid_loader); the value is kept as its numerator
ValidateReturn ==
    /\ pc = "validate_loop"
    /\ pos = LoaderLen(Len(validset), cfg.batch_size)
    /\ vresults' = Append(vresults, run_loss)
    /\ vorders' = Append(vorders, vorder)
    /\ pc' = "validate"
    /\ UNCHANGED << entry, cfg, checkpoint, writer, writerFault, writerClosed,
                    pos, forwards, validset, vorder, run_loss >>
    /\ UNCHANGED trainVars

-----------------------------------------------------------------------------
(* Specification *)

Next ==
    \/ MainSetup
    \/ MainDispatch
    \/ MainClose
    \/ TrainSetup
    \/ EpochStart
    \/ TrainBatch
    \/ EpochEnd
    \/ TrainFinish
    \/ PredictSetup
    \/ PredictBatch
    \/ PredictExhaust
    \/ ValidateStart
    \/ ValidateBatch
    \/ ValidateReturn

Spec == Init /\ [][Next]_vars

-----------------------------------------------------------------------------
(* Properties *)

\* at least one batch_status call has run to its end
Completed == writer /\ stepLog # << >> /\ pc # "crashed"

\* ceil(n / b), written without LoaderLen
CeilDiv(n, b) == IF n % b = 0 THEN n \div b ELSE n \div b + 1

BatchesPerEpoch == CeilDiv(cfg.trainN, cfg.batch_size)

\* the best value of every checkpoint written so far
StoreBests == [i \in 1..Len(store) |-> store[i].best]

\* C1: at every completed interval evaluation a checkpoint is written iff the
\* training loss just observed is strictly below the best recorded before the
\* call, best changes exactly when a checkpoint is written (to that loss), best
\* never increases, and the evaluated losses 50, 40, 45, 30 give the writes
\* 50, 40, 30 and a final best of 30.
C1_CheckpointIffImproved ==
    /\ (Completed /\ fired) =>
          /\ wrote <=> lastLoss < bestBefore
          /\ wrote <=> best # bestBefore
          /\ wrote => /\ best = lastLoss
                      /\ store # << >>
                      /\ store[Len(store)].best = lastLoss
    /\ Completed => best <= bestBefore
    /\ (Completed /\ evals = << 50, 40, 45, 30 >>) =>
          /\ StoreBests = << 50, 40, 30 >>
          /\ best = 30

C1_Witness ==
    /\ Completed
    /\ fired
    /\ evals = << 50, 40, 45, 30 >>
    /\ StoreBests = << 50, 40, 30 >>
    /\ best = 30

\* C2: when train starts from a restored checkpoint, the best loss in effect
\* when the loop begins its first batch is the one recorded in the checkpoint.
C2_RestoredBestInEffect ==
    (pc = "batch" /\ epoch = 0 /\ pos = 0 /\ restored)
        => best = checkpoint.best

\* C3 (as stated): at any completed training step whose loss is strictly below
\* the current best, a checkpoint is written and best is lowered to that loss.
C3_WriteOnEveryImprovement ==
    (Completed /\ lastLoss < bestBefore) => (wrote /\ best = lastLoss)

\* C3 (amended): at any completed training step whose global step is a
\* multiple of log_interval and whose loss is strictly below the current best,
\* a checkpoint holding that loss and step is written and best is lowered.
C3_WriteOnIntervalImprovement ==
    (Completed /\ global_step % cfg.log_interval = 0 /\ lastLoss < bestBefore)
        => /\ wrote
           /\ best = lastLoss
           /\ store # << >>
           /\ store[Len(store)] = [best |-> lastLoss, step |-> global_step]

C3_Witness ==
    /\ Completed
    /\ cfg.log_interval > 1
    /\ global_step % cfg.log_interval = 0
    /\ bestBefore # Inf
    /\ lastLoss < bestBefore
    /\ wrote
    /\ best = lastLoss

\* C4 (as stated): the global step of a completed batch_status call is the
\* 0-indexed position of its batch plus epoch * batches_per_epoch.
C4_GlobalStepZeroIndexed ==
    (Completed /\ pc = "batch" /\ pos > 0)
        => global_step = (pos - 1) + epoch * BatchesPerEpoch

\* C4 (amended): the global step of a completed batch_status call is the
\* 1-indexed position of its batch plus epoch * batches_per_epoch, so the first
\* batch of epoch 0 has global step 1 and the last batch of epoch e has global
\* step batches_per_epoch * (e + 1); it never decreases between calls.
C4_GlobalStepOneIndexed ==
    /\ (Completed /\ pc = "batch" /\ pos > 0)
          => /\ global_step = pos + epoch * BatchesPerEpoch
             /\ (pos = 1 /\ epoch = 0) => global_step = 1
             /\ pos = BatchesPerEpoch
                    => global_step = BatchesPerEpoch * (epoch + 1)
    /\ Completed => prev_global_step <= global_step

C4_Witness ==
    /\ Completed
    /\ cfg.trainN = 100
    /\ cfg.batch_size = 16
    /\ pc = "batch"
    /\ epoch = 0
    /\ pos = 7
    /\ global_step = 7

\* C5: a completed batch_status call takes the interval branch iff its global
\* step is a multiple of log_interval, and every positive multiple of
\* log_interval up to the last global step is the global step of exactly one
\* training step.
C5_IntervalIffMultiple ==
    Completed =>
        /\ fired <=> global_step % cfg.log_interval = 0
        /\ firedAt = SelectSeq(stepLog, LAMBDA g : g % cfg.log_interval = 0)
        /\ \A m \in 1..global_step :
              m % cfg.log_interval = 0
                  => Cardinality({i \in DOMAIN stepLog : stepLog[i] = m}) = 1

C5_Witness ==
    /\ Completed
    /\ cfg.log_interval = 50
    /\ global_step = 151
    /\ ~fired
    /\ firedAt = << 50, 100, 150 >>

\* C6: the running loss printed by a completed interval branch is the mean of
\* the losses of the last log_interval training steps (both sides multiplied
\* by log_interval).
C6_PrintedIsMeanOfLastInterval ==
    (Completed /\ fired)
        => printed = SumSeq(LastN(losses, cfg.log_interval))

\* C7: a call of train ends in Finished after exactly
\* epochs * ceil(N / B) optimizer steps.
C7_RunsEveryBatchAndFinishes ==
    (entry = "train" /\ pc \in {"finished", "crashed"})
        => /\ pc = "finished"
           /\ optSteps = cfg.epochs * BatchesPerEpoch

C10_WriterExistsWhenUsed ==
    entry = "main" => ~writerFault

====
